---- MODULE Spec2Model ----
(***************************************************************************)
(* Playback supervision of Listen.TUI (src/listentui/widgets/mpvThread.py):*)
(* MPVThread (the supervisor), MPVWatcher (the health monitor),            *)
(* MPVPreviewer (the snippet preview session), and the UI callers in       *)
(* pages/home.py, screen/modal.py and app.py.                              *)
(*                                                                         *)
(* Every thread of the program is a process with a program counter.  A     *)
(* step runs from one blocking point (lock acquisition, wait_until_playing,*)
(* wait_for_playback, sleep, thread start) to the next.  What libmpv does  *)
(* (a wait succeeds or times out, the stream stalls, the core shuts down)  *)
(* is the environment's choice.                                            *)
(***************************************************************************)
EXTENDS Integers, Sequences, FiniteSets, TLC

VARIABLES
    pcMain,         \* MPVThread.run: "starting", "running", "exited", "failed"
    instance,       \* MPVThread.instance is the supervisor (TRUE) or None (FALSE)
    terminated,     \* MPVThread.terminated
    player,         \* handle of MPVThread.player: the number of the MPV object
    live,           \* handles of main MPV objects whose core has not shut down
    pause,          \* mpv property "pause" of MPVThread.player
    core_idle,      \* mpv property "core-idle" of MPVThread.player
    restart_lock,   \* MPVThread._restart_lock: Free or the thread holding it
    pc,             \* position of every thread that can call restart()/hard_restart()
    state,          \* local variable `state` of restart(), per thread
    base_timeout,   \* MPVWatcher.base_timeout (from the configuration)
    retries,        \* MPVWatcher.retries
    timeout,        \* local variable `timeout` of MPVWatcher.dispatch_restart
    wTerminated,    \* MPVWatcher.terminated
    posted,         \* the message the last step posted to the UI, or "none"
    failPosted,     \* number of Fail messages posted so far (capped at 2)
    attempts,       \* kinds of the watcher's restart attempts since its last success
    appQuit,        \* ListentuiApp.on_unmount has run
    started,        \* a Started message has been posted (HomePage.started)
    nSessions,      \* number of MPVPreviewer threads created so far
    pv_thread,      \* MPVThread.pv_thread: 0 (None) or the latest MPVPreviewer
    pvpc,           \* position of every MPVPreviewer thread in run()
    pvTerminated,   \* MPVPreviewer.terminated
    pvPlayer,       \* MPVPreviewer.player: "none", "alive" or "terminated"
    main_player,    \* MPVPreviewer.main_player is the supervisor (TRUE) or None
    pausedBefore,   \* the main stream's paused flag when preview() was called
    cbPending,      \* callback threads started by safe_call that have not run yet
                    \* (and <<s, "DATA?">>: a safe_call of the data observer that
                    \* has passed its test and not yet started its thread)
    received,       \* the states the callback has received, per session
    pvResult,       \* what the last step's preview() or terminate_preview() call did:
                    \* "none", "locked", "started", "stopped", "no_session"
    cancelledAt,    \* where in run() a session was when terminate_preview() stopped it
    op,             \* the supervisor operation a UI worker was started to run
    volume,         \* mpv property "volume" of MPVThread.player
    muted_volume,   \* MPVThread.muted_volume
    called,         \* the volume operation the last step executed, or "none"
    preMute,        \* the volume read by the mute() of the last step, else 0
    lastRetryNo,    \* retry_no of the last FailedRestart posted since the last
                    \* SuccessfulRestart, 0 if there is none
    wSuccess        \* SuccessfulRestart messages the watcher's thread has posted
                    \* since its last dispatch

vars == <<pcMain, instance, terminated, player, live, pause, core_idle, restart_lock,
          pc, state, base_timeout, retries, timeout, wTerminated, posted,
          failPosted, attempts, appQuit, started, nSessions, pv_thread, pvpc,
          pvTerminated, pvPlayer, main_player, pausedBefore, cbPending, received,
          pvResult, cancelledAt, op, volume, muted_volume, called, preMute,
          lastRetryNo, wSuccess>>

\* the preview sessions' state
pvState == <<nSessions, pv_thread, pvpc, pvTerminated, pvPlayer, main_player,
             pausedBefore, cbPending, received, cancelledAt>>

\* the volume of the main player
volState == <<volume, muted_volume, called, preMute>>

----------------------------------------------------------------------------
\* Bounds of the model
MaxWorkers == 1        \* UI worker threads alive at the same time
MaxSessions == 2       \* preview sessions started in one run
MaxBackends == 3       \* MPV objects the supervisor creates in one run
AltBaseTimeout == 45   \* a configured restart timeout other than the default
MaxAmount == 101       \* the largest amount given to raise_volume/lower_volume
DataSessions == 1      \* preview sessions started in a run that follows the data events

\* Program constants
soft_retry_cap == 5
hard_retry_cap == 10
timeout_cap == 60
DefaultBaseTimeout == 20
DefaultVolume == 100
volume_step == 5
MaxVolume == 100

Free == 0
Watcher == 1
Workers == 2..(1 + MaxWorkers)
Sessions == 1..MaxSessions
\* the "restarting mpv" thread of session s
Restorer(s) == 1 + MaxWorkers + s
Restorers == {Restorer(s) : s \in Sessions}
Threads == {Watcher} \cup Workers \cup Restorers

Min(a, b) == IF a <= b THEN a ELSE b
Max(a, b) == IF a >= b THEN a ELSE b

----------------------------------------------------------------------------
\* Property reads of MPVThread (they never raise: _get_value returns None on a
\* dead backend and the properties wrap it in bool())
core_shutdown == player \notin live
paused == IF core_shutdown THEN FALSE ELSE pause
\* a read that keeps the last value of a dead backend
coreIdleStale == core_idle

coreIdleProp == IF core_shutdown THEN FALSE ELSE core_idle

\* the paused setter: suppressed on a dead backend
SetPaused(v) == IF core_shutdown THEN pause ELSE v

is_player_alive == ~core_shutdown
\* a stall test that does not look at the paused flag
is_idle_ignoring_pause == coreIdleProp = TRUE

is_not_playing == coreIdleProp = TRUE /\ paused = FALSE
is_restarting == restart_lock # Free

\* a restart lock that never keeps a second thread out
LockAcquirableAlways(l) == TRUE

\* `with self._restart_lock:` is a blocking acquire of a non-reentrant Lock
LockAcquirable(l) == l = Free

\* the timeout without the cap
RestartTimeoutUncapped(base, r) == base + 5 * r

\* timeout computed by dispatch_restart after the increment of retries
RestartTimeout(base, r) == Min(base + 5 * r, timeout_cap)

\* main.post_message(m)
Post(m) ==
    /\ posted' = m
    /\ failPosted' = IF m = "Fail" THEN Min(failPosted + 1, 2) ELSE failPosted
    /\ started' = (started \/ m = "Started")
    /\ lastRetryNo' = CASE m = "FailedRestart" -> retries
                         [] m = "SuccessfulRestart" -> 0
                         [] OTHER -> lastRetryNo

NoPost ==
    /\ posted' = "none"
    /\ UNCHANGED <<failPosted, started, lastRetryNo>>

\* a step outside the preview code
NoPreview ==
    /\ pvResult' = "none"
    /\ UNCHANGED pvState

----------------------------------------------------------------------------
Init ==
    /\ pcMain = "starting"
    /\ instance = FALSE
    /\ terminated = FALSE
    /\ player = 1
    /\ live = {1}
    /\ pause = FALSE
    /\ core_idle = TRUE
    /\ restart_lock = Free
    /\ pc = [t \in Threads |-> "idle"]
    /\ state = [t \in Threads |-> FALSE]
    /\ base_timeout \in {DefaultBaseTimeout, AltBaseTimeout}
    /\ retries = 0
    /\ timeout = 0
    /\ wTerminated = FALSE
    /\ posted = "none"
    /\ failPosted = 0
    /\ attempts = <<>>
    /\ appQuit = FALSE
    /\ started = FALSE
    /\ nSessions = 0
    /\ pv_thread = 0
    /\ pvpc = [s \in Sessions |-> "none"]
    /\ pvTerminated = [s \in Sessions |-> FALSE]
    /\ pvPlayer = [s \in Sessions |-> "none"]
    /\ main_player = [s \in Sessions |-> FALSE]
    /\ pausedBefore = [s \in Sessions |-> FALSE]
    /\ cbPending = {}
    /\ received = [s \in Sessions |-> {}]
    /\ pvResult = "none"
    /\ cancelledAt = [s \in Sessions |-> "no"]
    /\ op = [u \in Workers |-> "none"]
    /\ volume = DefaultVolume
    /\ muted_volume = 0
    /\ called = "none"
    /\ preMute = 0
    /\ lastRetryNo = 0
    /\ wSuccess = 0

----------------------------------------------------------------------------
\* a terminate that leaves the player running
terminateKeepingPlayer ==
    /\ wTerminated' = TRUE
    /\ terminated' = TRUE
    /\ UNCHANGED live

\* MPVThread.terminate: player.terminate(), watcher.terminate(), terminated = True
terminate ==
    /\ live' = live \ {player}
    /\ wTerminated' = TRUE
    /\ terminated' = TRUE

\* The exception leaves the operation the UI started in a worker:
\* safe_restart and safe_hard_restart suppress TimeoutError only, play_pause
\* (play) handles nothing.
Propagates(o, outcome) ==
    \/ outcome = "error"
    \/ outcome = "timeout" /\ o = "play_pause"

\* Where a thread continues once restart()/hard_restart() has returned ("ok"),
\* raised TimeoutError ("timeout") or raised another exception ("error").
\* dispatch_restart catches TimeoutError only; safe_play catches everything; a
\* UI worker ends, with the exception ("raised") if its operation let it through.
Return(t, outcome) ==
    IF t = Watcher
    THEN CASE outcome = "ok" -> "w_ok"
           [] outcome = "timeout" -> "poll"
           [] OTHER -> "stopped"
    ELSE IF t \in Restorers THEN "finished"
    ELSE IF outcome # "ok" /\ Propagates(op[t], outcome) THEN "raised" ELSE "idle"

PostOnReturn(t, outcome) ==
    IF t = Watcher /\ outcome = "timeout" THEN Post("FailedRestart") ELSE NoPost

----------------------------------------------------------------------------
\* a start that starts the watcher without posting Started
MainStartOkSilent ==
    /\ pcMain = "starting"
    /\ ~core_shutdown
    /\ core_idle' = FALSE
    /\ instance' = TRUE
    /\ NoPost
    /\ pc' = [pc EXCEPT ![Watcher] = "poll"]
    /\ pcMain' = "running"
    /\ UNCHANGED <<terminated, player, live, pause, restart_lock, state, base_timeout,
                   retries, timeout, wTerminated, attempts, appQuit>>
    /\ NoPreview
    /\ UNCHANGED <<op, volState, wSuccess>>

\* MPVThread.run: start_mpv succeeded (instance = self, post Started), then
\* watcher.start()
MainStartOk ==
    /\ pcMain = "starting"
    /\ ~core_shutdown
    /\ core_idle' = FALSE
    /\ instance' = TRUE
    /\ Post("Started")
    /\ pc' = [pc EXCEPT ![Watcher] = "poll"]
    /\ pcMain' = "running"
    /\ UNCHANGED <<terminated, player, live, pause, restart_lock, state, base_timeout,
                   retries, timeout, wTerminated, attempts, appQuit>>
    /\ NoPreview
    /\ UNCHANGED <<op, volState, wSuccess>>

\* a start failure that starts the watcher all the same
MainStartTimeoutWatched ==
    /\ pcMain = "starting"
    /\ ~core_shutdown
    /\ Post("Fail")
    /\ pcMain' = "failed"
    /\ pc' = [pc EXCEPT ![Watcher] = "poll"]
    /\ UNCHANGED <<instance, terminated, player, live, pause, core_idle, restart_lock,
                   state, base_timeout, retries, timeout, wTerminated, attempts,
                   appQuit>>
    /\ NoPreview
    /\ UNCHANGED <<op, volState, wSuccess>>

\* setup_mpv raised TimeoutError: post Fail, run() returns
MainStartTimeout ==
    /\ pcMain = "starting"
    /\ ~core_shutdown
    /\ Post("Fail")
    /\ pcMain' = "failed"
    /\ UNCHANGED <<instance, terminated, player, live, pause, core_idle, restart_lock,
                   pc, state, base_timeout, retries, timeout, wTerminated, attempts,
                   appQuit>>
    /\ NoPreview
    /\ UNCHANGED <<op, volState, wSuccess>>

\* MPVThread.run: the loop sees terminated; MPVThread.instance = None
MainLoopExit ==
    /\ pcMain = "running"
    /\ terminated
    /\ instance' = FALSE
    /\ pcMain' = "exited"
    /\ NoPost
    /\ UNCHANGED <<terminated, player, live, pause, core_idle, restart_lock, pc, state,
                   base_timeout, retries, timeout, wTerminated, attempts, appQuit>>
    /\ NoPreview
    /\ UNCHANGED <<op, volState, wSuccess>>

----------------------------------------------------------------------------
\* `with self._restart_lock:` in restart() or hard_restart() finds the lock held:
\* the thread blocks in acquire
lock_blocked(t) ==
    /\ pc[t] \in {"soft_lock", "hard_lock"}
    /\ ~LockAcquirable(restart_lock)
    /\ pc' = [pc EXCEPT ![t] = IF pc[t] = "soft_lock" THEN "soft_blocked"
                                                     ELSE "hard_blocked"]
    /\ NoPost
    /\ UNCHANGED <<pcMain, instance, terminated, player, live, pause, core_idle,
                   restart_lock, state, base_timeout, retries, timeout, wTerminated,
                   attempts, appQuit>>
    /\ NoPreview
    /\ UNCHANGED <<op, volState, wSuccess>>

\* MPVThread.restart, up to wait_until_playing
restart_enter(t) ==
    /\ pc[t] \in {"soft_lock", "soft_blocked"}
    /\ LockAcquirable(restart_lock)
    /\ restart_lock' = t
    /\ state' = [state EXCEPT ![t] = paused]
    /\ IF core_shutdown
       THEN /\ pc' = [pc EXCEPT ![t] = "soft_shutdown"]
            /\ UNCHANGED core_idle
       ELSE /\ pc' = [pc EXCEPT ![t] = "soft_wait"]
            /\ core_idle' = TRUE
    /\ NoPost
    /\ UNCHANGED <<pcMain, instance, terminated, player, live, pause, base_timeout,
                   retries, timeout, wTerminated, attempts, appQuit>>
    /\ NoPreview
    /\ UNCHANGED <<op, volState, wSuccess>>

\* a restart that always comes back unpaused
RestoredPauseDropped(st) == FALSE

\* `self.paused = state or False` at the end of restart()
RestoredPause(st) == st \/ FALSE

\* a restart() that resets the watcher's retries for every caller
restart_ok_resetting(t) ==
    /\ pc[t] = "soft_wait"
    /\ state' = [state EXCEPT ![t] = FALSE]
    /\ ~core_shutdown
    /\ core_idle' = FALSE
    /\ pause' = SetPaused(RestoredPause(state[t]))
    /\ Post("SuccessfulRestart")
    /\ restart_lock' = Free
    /\ pc' = [pc EXCEPT ![t] = Return(t, "ok")]
    /\ retries' = 0
    /\ UNCHANGED <<pcMain, instance, terminated, player, live, base_timeout,
                   timeout, wTerminated, attempts, appQuit>>
    /\ NoPreview
    /\ UNCHANGED <<op, volState>>
    /\ wSuccess' = IF t = Watcher THEN wSuccess + 1 ELSE wSuccess

\* wait_until_playing returned: restore paused, post SuccessfulRestart, unlock
restart_ok(t) ==
    /\ pc[t] = "soft_wait"
    /\ state' = [state EXCEPT ![t] = FALSE]
    /\ ~core_shutdown
    /\ core_idle' = FALSE
    /\ pause' = SetPaused(RestoredPause(state[t]))
    /\ Post("SuccessfulRestart")
    /\ restart_lock' = Free
    /\ pc' = [pc EXCEPT ![t] = Return(t, "ok")]
    /\ UNCHANGED <<pcMain, instance, terminated, player, live, base_timeout,
                   retries, timeout, wTerminated, attempts, appQuit>>
    /\ NoPreview
    /\ UNCHANGED <<op, volState>>
    /\ wSuccess' = IF t = Watcher THEN wSuccess + 1 ELSE wSuccess

\* wait_until_playing raised TimeoutError: unlock, the caller sees the exception
restart_timeout(t) ==
    /\ pc[t] = "soft_wait"
    /\ state' = [state EXCEPT ![t] = FALSE]
    /\ restart_lock' = Free
    /\ PostOnReturn(t, "timeout")
    /\ pc' = [pc EXCEPT ![t] = Return(t, "timeout")]
    /\ UNCHANGED <<pcMain, instance, terminated, player, live, pause, core_idle,
                   base_timeout, retries, timeout, wTerminated, attempts, appQuit>>
    /\ NoPreview
    /\ UNCHANGED <<op, volState, wSuccess>>

\* wait_until_playing raised ShutdownError: the handler calls hard_restart()
\* while this thread still holds the lock
restart_shutdown(t) ==
    /\ pc[t] = "soft_wait"
    /\ state' = [state EXCEPT ![t] = FALSE]
    /\ core_shutdown
    /\ pc' = [pc EXCEPT ![t] = "soft_shutdown"]
    /\ NoPost
    /\ UNCHANGED <<pcMain, instance, terminated, player, live, pause, core_idle,
                   restart_lock, base_timeout, retries, timeout, wTerminated,
                   attempts, appQuit>>
    /\ NoPreview
    /\ UNCHANGED <<op, volState, wSuccess>>

\* MPVThread.hard_restart: take the lock, terminate()
hard_restart_enter(t) ==
    /\ pc[t] \in {"hard_lock", "hard_blocked", "soft_shutdown"}
    /\ LockAcquirable(restart_lock)
    /\ restart_lock' = t
    /\ terminate
    /\ pc' = [pc EXCEPT ![t] = "hard_new"]
    /\ NoPost
    /\ UNCHANGED <<pcMain, instance, player, pause, core_idle, state, base_timeout,
                   retries, timeout, attempts, appQuit>>
    /\ NoPreview
    /\ UNCHANGED <<op, volState, wSuccess>>

\* self.player = MPV(...); start_mpv begins: play(stream_url)
hard_restart_new(t) ==
    /\ pc[t] = "hard_new"
    /\ player' = player + 1
    /\ live' = live \cup {player + 1}
    /\ pause' = FALSE
    /\ core_idle' = TRUE
    /\ pc' = [pc EXCEPT ![t] = "hard_wait"]
    /\ NoPost
    /\ UNCHANGED <<pcMain, instance, terminated, restart_lock, state, base_timeout,
                   retries, timeout, wTerminated, attempts, appQuit>>
    /\ NoPreview
    /\ UNCHANGED <<op, volState, wSuccess>>

\* start_mpv: wait_until_playing returned; instance = self, post Started, unlock
hard_restart_ok(t) ==
    /\ pc[t] = "hard_wait"
    /\ ~core_shutdown
    /\ core_idle' = FALSE
    /\ instance' = TRUE
    /\ Post("Started")
    /\ restart_lock' = Free
    /\ pc' = [pc EXCEPT ![t] = Return(t, "ok")]
    /\ UNCHANGED <<pcMain, terminated, player, live, pause, state, base_timeout,
                   retries, timeout, wTerminated, attempts, appQuit>>
    /\ NoPreview
    /\ UNCHANGED <<op, volState, wSuccess>>

hard_restart_timeout(t) ==
    /\ pc[t] = "hard_wait"
    /\ restart_lock' = Free
    /\ PostOnReturn(t, "timeout")
    /\ pc' = [pc EXCEPT ![t] = Return(t, "timeout")]
    /\ UNCHANGED <<pcMain, instance, terminated, player, live, pause, core_idle, state,
                   base_timeout, retries, timeout, wTerminated, attempts, appQuit>>
    /\ NoPreview
    /\ UNCHANGED <<op, volState, wSuccess>>

\* the new core shut down during start_mpv: ShutdownError leaves hard_restart
hard_restart_shutdown(t) ==
    /\ pc[t] = "hard_wait"
    /\ core_shutdown
    /\ restart_lock' = Free
    /\ pc' = [pc EXCEPT ![t] = Return(t, "error")]
    /\ NoPost
    /\ UNCHANGED <<pcMain, instance, terminated, player, live, pause, core_idle, state,
                   base_timeout, retries, timeout, wTerminated, attempts, appQuit>>
    /\ NoPreview
    /\ UNCHANGED <<op, volState, wSuccess>>

----------------------------------------------------------------------------
\* MPVWatcher.run: the loop test and the first three checks of an iteration.
\* The branches that only sleep leave the state as it is.
watcher_poll ==
    /\ pc[Watcher] = "poll"
    /\ IF wTerminated
       THEN pc' = [pc EXCEPT ![Watcher] = "stopped"]
       ELSE /\ is_player_alive
            /\ ~is_restarting
            /\ is_not_playing
            /\ pc' = [pc EXCEPT ![Watcher] = "grace"]
    /\ NoPost
    /\ UNCHANGED <<pcMain, instance, terminated, player, live, pause, core_idle,
                   restart_lock, state, base_timeout, retries, timeout, wTerminated,
                   attempts, appQuit>>
    /\ NoPreview
    /\ UNCHANGED <<op, volState, wSuccess>>

\* after sleep(inactivity_timeout): the stall has cleared, next iteration
watcher_recovered ==
    /\ pc[Watcher] = "grace"
    /\ ~is_not_playing
    /\ pc' = [pc EXCEPT ![Watcher] = "poll"]
    /\ NoPost
    /\ UNCHANGED <<pcMain, instance, terminated, player, live, pause, core_idle,
                   restart_lock, state, base_timeout, retries, timeout, wTerminated,
                   attempts, appQuit>>
    /\ NoPreview
    /\ UNCHANGED <<op, volState, wSuccess>>

\* a watcher that escalates at once
UseHardRestartAlways(r) == TRUE

\* `if self.retries > self.soft_retry_cap` in dispatch_restart
UseHardRestart(r) == r > soft_retry_cap

\* after sleep(inactivity_timeout): still stalled, MPVWatcher.dispatch_restart
\* up to the call of restart()/hard_restart()
dispatch_restart ==
    /\ pc[Watcher] = "grace"
    /\ is_not_playing
    /\ retries' = retries + 1
    /\ timeout' = RestartTimeout(base_timeout, retries + 1)
    /\ IF retries + 1 >= hard_retry_cap
       THEN /\ Post("Fail")
            /\ pc' = [pc EXCEPT ![Watcher] = "poll"]
            /\ UNCHANGED attempts
       ELSE /\ NoPost
            /\ IF UseHardRestart(retries + 1)
               THEN /\ pc' = [pc EXCEPT ![Watcher] = "hard_lock"]
                    /\ attempts' = Append(attempts, "hard")
               ELSE /\ pc' = [pc EXCEPT ![Watcher] = "soft_lock"]
                    /\ attempts' = Append(attempts, "soft")
    /\ UNCHANGED <<pcMain, instance, terminated, player, live, pause, core_idle,
                   restart_lock, state, base_timeout, wTerminated, appQuit>>
    /\ NoPreview
    /\ UNCHANGED <<op, volState>>
    /\ wSuccess' = 0

\* dispatch_restart after restart()/hard_restart() returned normally
dispatch_restart_ok ==
    /\ pc[Watcher] = "w_ok"
    /\ retries' = 0
    /\ attempts' = <<>>
    /\ Post("SuccessfulRestart")
    /\ pc' = [pc EXCEPT ![Watcher] = "poll"]
    /\ UNCHANGED <<pcMain, instance, terminated, player, live, pause, core_idle,
                   restart_lock, state, base_timeout, timeout, wTerminated, appQuit>>
    /\ NoPreview
    /\ UNCHANGED <<op, volState>>
    /\ wSuccess' = wSuccess + 1

----------------------------------------------------------------------------
\* HomePage.action_play_pause: the UI thread starts a worker running play_pause
action_play_pause(u) ==
    /\ ~appQuit
    /\ started
    /\ pc[u] = "idle"
    /\ pc' = [pc EXCEPT ![u] = "play_pause"]
    /\ NoPost
    /\ UNCHANGED <<pcMain, instance, terminated, player, live, pause, core_idle,
                   restart_lock, state, base_timeout, retries, timeout, wTerminated,
                   attempts, appQuit>>
    /\ NoPreview
    /\ op' = [op EXCEPT ![u] = "play_pause"]
    /\ UNCHANGED <<volState, wSuccess>>

\* MPVThread.play_pause in the worker: play() up to restart(), or pause()
play_pause(u) ==
    /\ pc[u] = "play_pause"
    /\ IF paused
       THEN /\ pause' = SetPaused(FALSE)
            /\ pc' = [pc EXCEPT ![u] = "soft_lock"]
       ELSE /\ pause' = SetPaused(TRUE)
            /\ pc' = [pc EXCEPT ![u] = "idle"]
    /\ NoPost
    /\ UNCHANGED <<pcMain, instance, terminated, player, live, core_idle, restart_lock,
                   state, base_timeout, retries, timeout, wTerminated, attempts, appQuit>>
    /\ NoPreview
    /\ UNCHANGED <<op, volState, wSuccess>>

\* HomePage.action_soft_restart: a worker runs safe_restart unless is_restarting()
action_soft_restart(u) ==
    /\ ~appQuit
    /\ started
    /\ pc[u] = "idle"
    /\ ~is_restarting
    /\ pc' = [pc EXCEPT ![u] = "soft_lock"]
    /\ NoPost
    /\ UNCHANGED <<pcMain, instance, terminated, player, live, pause, core_idle,
                   restart_lock, state, base_timeout, retries, timeout, wTerminated,
                   attempts, appQuit>>
    /\ NoPreview
    /\ op' = [op EXCEPT ![u] = "safe_restart"]
    /\ UNCHANGED <<volState, wSuccess>>

\* MPV objects that threads already on their way into hard_restart will create
PendingBackends == Cardinality({t \in Threads : pc[t] \in {"hard_lock", "hard_blocked", "hard_new"}})

\* HomePage.action_hard_restart: a worker runs safe_hard_restart unless is_restarting()
action_hard_restart(u) ==
    /\ ~appQuit
    /\ started
    /\ pc[u] = "idle"
    /\ ~is_restarting
    /\ player + PendingBackends + 1 < MaxBackends
    /\ pc' = [pc EXCEPT ![u] = "hard_lock"]
    /\ NoPost
    /\ UNCHANGED <<pcMain, instance, terminated, player, live, pause, core_idle,
                   restart_lock, state, base_timeout, retries, timeout, wTerminated,
                   attempts, appQuit>>
    /\ NoPreview
    /\ op' = [op EXCEPT ![u] = "safe_hard_restart"]
    /\ UNCHANGED <<volState, wSuccess>>

\* ListentuiApp.on_unmount: terminate the supervisor if it is registered
on_unmount ==
    /\ ~appQuit
    /\ appQuit' = TRUE
    /\ IF instance THEN terminate ELSE UNCHANGED <<live, wTerminated, terminated>>
    /\ NoPost
    /\ UNCHANGED <<pcMain, instance, player, pause, core_idle, restart_lock, pc, state,
                   base_timeout, retries, timeout, attempts>>
    /\ NoPreview
    /\ UNCHANGED <<op, volState, wSuccess>>

----------------------------------------------------------------------------
\* libmpv: the stream stalls (the core goes idle) or resumes by itself
Stall ==
    /\ ~core_shutdown
    /\ ~core_idle
    /\ core_idle' = TRUE
    /\ NoPost
    /\ UNCHANGED <<pcMain, instance, terminated, player, live, pause, restart_lock, pc,
                   state, base_timeout, retries, timeout, wTerminated, attempts, appQuit>>
    /\ NoPreview
    /\ UNCHANGED <<op, volState, wSuccess>>

Resume ==
    /\ ~core_shutdown
    /\ core_idle
    /\ pcMain # "starting"
    /\ core_idle' = FALSE
    /\ NoPost
    /\ UNCHANGED <<pcMain, instance, terminated, player, live, pause, restart_lock, pc,
                   state, base_timeout, retries, timeout, wTerminated, attempts, appQuit>>
    /\ NoPreview
    /\ UNCHANGED <<op, volState, wSuccess>>

\* libmpv: the core of the current player shuts down unexpectedly
CoreShutdown ==
    /\ ~core_shutdown
    /\ live' = live \ {player}
    /\ NoPost
    /\ UNCHANGED <<pcMain, instance, terminated, player, pause, core_idle, restart_lock,
                   pc, state, base_timeout, retries, timeout, wTerminated, attempts,
                   appQuit>>
    /\ NoPreview
    /\ UNCHANGED <<op, volState, wSuccess>>

----------------------------------------------------------------------------
\* Everything of the supervisor that the preview code never writes
supFrame == <<pcMain, instance, terminated, player, live, core_idle, restart_lock,
              state, base_timeout, retries, timeout, wTerminated, attempts, appQuit,
              op, volState, wSuccess>>

\* Thread.is_alive() of MPVPreviewer s: started and run() has not returned
is_alive(s) == pvpc[s] \notin {"none", "dead"}

\* a guard that never finds a session alive
PreviewActiveNever == FALSE

\* the guard of MPVThread.preview
PreviewActive == pv_thread # 0 /\ is_alive(pv_thread)

\* safe_call inside MPVPreviewer.run: a thread per callback, nothing once terminated
safe_call(s, status) ==
    IF pvTerminated[s] THEN cbPending ELSE cbPending \cup {<<s, status>>}

\* MPVThread.preview while a session is alive: callback(LOCKED), return
preview_locked ==
    /\ ~appQuit
    /\ PreviewActive
    /\ pvResult' = "locked"
    /\ NoPost
    /\ UNCHANGED <<pause, pc, supFrame, pvState>>

\* MPVThread.preview otherwise: pv_thread = MPVPreviewer(...); pv_thread.start()
preview_start ==
    /\ ~appQuit
    /\ ~PreviewActive
    /\ nSessions < MaxSessions
    /\ nSessions' = nSessions + 1
    /\ pv_thread' = nSessions + 1
    /\ pvpc' = [pvpc EXCEPT ![nSessions + 1] = "new"]
    /\ main_player' = [main_player EXCEPT ![nSessions + 1] = instance]
    /\ pausedBefore' = [pausedBefore EXCEPT ![nSessions + 1] = paused]
    /\ pvResult' = "started"
    /\ UNCHANGED cancelledAt
    /\ NoPost
    /\ UNCHANGED <<pause, pc, supFrame, pvTerminated, pvPlayer, cbPending, received>>

\* MPVPreviewer.run: player = MPV(...); self.player = player
pv_create(s) ==
    /\ pvpc[s] = "new"
    /\ pvPlayer' = [pvPlayer EXCEPT ![s] = "alive"]
    /\ pvpc' = [pvpc EXCEPT ![s] = "play"]
    /\ pvResult' = "none"
    /\ UNCHANGED cancelledAt
    /\ NoPost
    /\ UNCHANGED <<pause, pc, supFrame, nSessions, pv_thread, pvTerminated, main_player,
                   pausedBefore, cbPending, received>>

\* player.play(final_url); wait_until_playing returned; safe_call(PLAYING)
pv_playing(s) ==
    /\ pvpc[s] = "play"
    /\ pvPlayer[s] = "alive"
    /\ cbPending' = safe_call(s, "PLAYING")
    /\ pvpc' = [pvpc EXCEPT ![s] = "pause_main"]
    /\ pvResult' = "none"
    /\ UNCHANGED cancelledAt
    /\ NoPost
    /\ UNCHANGED <<pause, pc, supFrame, nSessions, pv_thread, pvTerminated, pvPlayer,
                   main_player, pausedBefore, received>>

\* play or wait_until_playing raised (timeout, shutdown): safe_call(ERROR)
pv_play_error(s) ==
    /\ pvpc[s] = "play"
    /\ cbPending' = safe_call(s, "ERROR")
    /\ pvpc' = [pvpc EXCEPT ![s] = "cleanup"]
    /\ pvResult' = "none"
    /\ UNCHANGED cancelledAt
    /\ NoPost
    /\ UNCHANGED <<pause, pc, supFrame, nSessions, pv_thread, pvTerminated, pvPlayer,
                   main_player, pausedBefore, received>>

\* the "end-file" event callback `check`, reason ERROR: safe_call(UNABLE),
\* terminated = True
pv_check(s) ==
    /\ pvpc[s] \in {"play", "playback"}
    /\ pvPlayer[s] = "alive"
    /\ ~pvTerminated[s]
    /\ cbPending' = safe_call(s, "UNABLE")
    /\ pvTerminated' = [pvTerminated EXCEPT ![s] = TRUE]
    /\ pvResult' = "none"
    /\ UNCHANGED cancelledAt
    /\ NoPost
    /\ UNCHANGED <<pause, pc, supFrame, nSessions, pv_thread, pvpc, pvPlayer,
                   main_player, pausedBefore, received>>

\* if self.main_player: self.main_player.pause()
pv_pause_main(s) ==
    /\ pvpc[s] = "pause_main"
    /\ pause' = IF main_player[s] THEN SetPaused(TRUE) ELSE pause
    /\ pvpc' = [pvpc EXCEPT ![s] = "playback"]
    /\ pvResult' = "none"
    /\ UNCHANGED cancelledAt
    /\ NoPost
    /\ UNCHANGED <<pc, supFrame, nSessions, pv_thread, pvTerminated, pvPlayer,
                   main_player, pausedBefore, cbPending, received>>

\* wait_for_playback returned; safe_call(FINISHED)
pv_finished(s) ==
    /\ pvpc[s] = "playback"
    /\ pvPlayer[s] = "alive"
    /\ cbPending' = safe_call(s, "FINISHED")
    /\ pvpc' = [pvpc EXCEPT ![s] = "else"]
    /\ pvResult' = "none"
    /\ UNCHANGED cancelledAt
    /\ NoPost
    /\ UNCHANGED <<pause, pc, supFrame, nSessions, pv_thread, pvTerminated, pvPlayer,
                   main_player, pausedBefore, received>>

\* wait_for_playback raised (timeout, shutdown): safe_call(ERROR)
pv_playback_error(s) ==
    /\ pvpc[s] = "playback"
    /\ cbPending' = safe_call(s, "ERROR")
    /\ pvpc' = [pvpc EXCEPT ![s] = "cleanup"]
    /\ pvResult' = "none"
    /\ UNCHANGED cancelledAt
    /\ NoPost
    /\ UNCHANGED <<pause, pc, supFrame, nSessions, pv_thread, pvTerminated, pvPlayer,
                   main_player, pausedBefore, received>>

\* the else branch of the try: safe_call(DONE)
pv_done(s) ==
    /\ pvpc[s] = "else"
    /\ cbPending' = safe_call(s, "DONE")
    /\ pvpc' = [pvpc EXCEPT ![s] = "cleanup"]
    /\ pvResult' = "none"
    /\ UNCHANGED cancelledAt
    /\ NoPost
    /\ UNCHANGED <<pause, pc, supFrame, nSessions, pv_thread, pvTerminated, pvPlayer,
                   main_player, pausedBefore, received>>

\* `if self.main_player and self.main_player.paused is not None and
\* self.main_player.paused` at the end of MPVPreviewer.run
NeedsResume(s) == main_player[s] /\ paused

\* player.terminate(); if the main player reads paused, start the thread that
\* runs safe_play; run() returns
pv_cleanup(s) ==
    /\ pvpc[s] = "cleanup"
    /\ pvPlayer' = [pvPlayer EXCEPT ![s] = "terminated"]
    /\ pc' = IF NeedsResume(s)
             THEN [pc EXCEPT ![Restorer(s)] = "safe_play"]
             ELSE pc
    /\ pvpc' = [pvpc EXCEPT ![s] = "dead"]
    /\ pvResult' = "none"
    /\ UNCHANGED cancelledAt
    /\ NoPost
    /\ UNCHANGED <<pause, supFrame, nSessions, pv_thread, pvTerminated, main_player,
                   pausedBefore, cbPending, received>>

\* safe_play: main_player.play() up to restart()
safe_play(s) ==
    /\ pc[Restorer(s)] = "safe_play"
    /\ pause' = SetPaused(FALSE)
    /\ pc' = [pc EXCEPT ![Restorer(s)] = "soft_lock"]
    /\ NoPost
    /\ NoPreview
    /\ UNCHANGED supFrame

\* a thread started by safe_call runs the callback
callback(s, status) ==
    /\ <<s, status>> \in cbPending
    /\ cbPending' = cbPending \ {<<s, status>>}
    /\ received' = [received EXCEPT ![s] = @ \cup {status}]
    /\ pvResult' = "none"
    /\ UNCHANGED cancelledAt
    /\ NoPost
    /\ UNCHANGED <<pause, pc, supFrame, nSessions, pv_thread, pvpc, pvTerminated,
                   pvPlayer, main_player, pausedBefore>>

\* a guard that does not ask whether the session's thread is alive
TerminateGuardNoAliveTest == pv_thread # 0

\* the guard of MPVThread.terminate_preview
TerminateGuard == pv_thread # 0 /\ is_alive(pv_thread)

\* MPVThread.terminate_preview: MPVPreviewer.terminate() if a session is alive
\* (terminated = True; player.terminate() if the player exists); the join that
\* follows changes nothing
terminate_preview ==
    /\ ~appQuit
    /\ IF TerminateGuard
       THEN /\ pvTerminated' = [pvTerminated EXCEPT ![pv_thread] = TRUE]
            /\ pvPlayer' = [pvPlayer EXCEPT ![pv_thread] =
                              IF @ = "none" THEN "none" ELSE "terminated"]
            /\ cancelledAt' = [cancelledAt EXCEPT ![pv_thread] =
                                 IF @ = "no" THEN pvpc[pv_thread] ELSE @]
            /\ pvResult' = "stopped"
       ELSE /\ UNCHANGED <<pvTerminated, pvPlayer, cancelledAt>>
            /\ pvResult' = "no_session"
    /\ NoPost
    /\ UNCHANGED <<pause, pc, supFrame, nSessions, pv_thread, pvpc, main_player,
                   pausedBefore, cbPending, received>>

PreviewStatuses == {"UNABLE", "ERROR", "PLAYING", "FINISHED", "DONE"}

\* The property observer `data` runs on the event thread of the session's
\* player: safe_call(DATA) has read self.terminated as False
pv_data_check(s) ==
    /\ pvpc[s] \in {"play", "pause_main", "playback", "else", "cleanup"}
    /\ pvPlayer[s] = "alive"
    /\ ~pvTerminated[s]
    /\ cbPending' = cbPending \cup {<<s, "DATA?">>}
    /\ pvResult' = "none"
    /\ NoPost
    /\ UNCHANGED <<pause, pc, supFrame, nSessions, pv_thread, pvpc, pvTerminated,
                   pvPlayer, main_player, pausedBefore, received, cancelledAt>>

\* ... and starts the thread of the callback
pv_data_dispatch(s) ==
    /\ <<s, "DATA?">> \in cbPending
    /\ cbPending' = (cbPending \ {<<s, "DATA?">>}) \cup {<<s, "DATA">>}
    /\ pvResult' = "none"
    /\ NoPost
    /\ UNCHANGED <<pause, pc, supFrame, nSessions, pv_thread, pvpc, pvTerminated,
                   pvPlayer, main_player, pausedBefore, received, cancelledAt>>

----------------------------------------------------------------------------
\* The volume of the main player.  The operations run on the UI thread.  mpv
\* keeps the volume as a double; the values written are integers of small
\* magnitude, which int() reads back unchanged.

\* the volume getter: 0 when the backend is dead (None) or the volume is 0
volumeProp == IF core_shutdown THEN 0 ELSE volume

\* the volume setter: suppressed on a dead backend
SetVolume(v) == IF core_shutdown THEN volume ELSE v

\* raising without the upper clamp
RaisedVolumeUnclamped(v, a) == v + a

\* min(self.volume + amount, 100)
RaisedVolume(v, a) == Min(v + a, MaxVolume)

\* max(self.volume - amount, 0)
LoweredVolume(v, a) == Max(v - a, 0)

\* unmuting to the remembered volume even when it is 0
UnmutedVolumeRaw(m) == m

\* self.muted_volume or 1
UnmutedVolume(m) == IF m # 0 THEN m ELSE 1

\* the amounts the callers pass (HomePage passes config.player.volume_step)
Amounts == {0, 1, volume_step, MaxAmount}

\* what a volume operation leaves alone
volFrame == <<pcMain, instance, terminated, player, live, pause, core_idle,
              restart_lock, pc, state, base_timeout, retries, timeout, wTerminated,
              posted, failPosted, attempts, appQuit, started, pvState, pvResult, op,
              lastRetryNo, wSuccess>>

\* MPVThread.set_volume
set_volume(v) ==
    /\ volume' = SetVolume(v)
    /\ called' = "set_volume"
    /\ preMute' = 0
    /\ UNCHANGED <<muted_volume, volFrame>>

\* MPVThread.raise_volume
raise_volume(a) ==
    /\ volume' = SetVolume(RaisedVolume(volumeProp, a))
    /\ called' = "raise_volume"
    /\ preMute' = 0
    /\ UNCHANGED <<muted_volume, volFrame>>

\* MPVThread.lower_volume
lower_volume(a) ==
    /\ volume' = SetVolume(LoweredVolume(volumeProp, a))
    /\ called' = "lower_volume"
    /\ preMute' = 0
    /\ UNCHANGED <<muted_volume, volFrame>>

\* MPVThread.mute
mute ==
    /\ muted_volume' = volumeProp
    /\ volume' = SetVolume(0)
    /\ called' = "mute"
    /\ preMute' = volumeProp
    /\ UNCHANGED volFrame

\* MPVThread.unmute (preMute is kept when the step before was the mute())
unmute ==
    /\ volume' = SetVolume(UnmutedVolume(muted_volume))
    /\ muted_volume' = 0
    /\ called' = "unmute"
    /\ preMute' = IF called = "mute" THEN preMute ELSE 0
    /\ UNCHANGED volFrame

\* MPVThread.toggle_mute: mute() if muted_volume == 0 else unmute(); `called`
\* tells the second of two toggles in a row from the first
toggle_mute ==
    /\ IF muted_volume = 0
       THEN /\ muted_volume' = volumeProp
            /\ volume' = SetVolume(0)
            /\ preMute' = volumeProp
       ELSE /\ volume' = SetVolume(UnmutedVolume(muted_volume))
            /\ muted_volume' = 0
            /\ preMute' = 0
    /\ called' = IF called = "toggle_mute" THEN "toggle_mute_again" ELSE "toggle_mute"
    /\ UNCHANGED volFrame

----------------------------------------------------------------------------
\* the preview session and the threads it starts
PreviewStep ==
    \/ preview_locked
    \/ preview_start
    \/ \E s \in Sessions : pv_create(s)
    \/ \E s \in Sessions : pv_playing(s)
    \/ \E s \in Sessions : pv_play_error(s)
    \/ \E s \in Sessions : pv_check(s)
    \/ \E s \in Sessions : pv_pause_main(s)
    \/ \E s \in Sessions : pv_finished(s)
    \/ \E s \in Sessions : pv_playback_error(s)
    \/ \E s \in Sessions : pv_done(s)
    \/ \E s \in Sessions : pv_cleanup(s)
    \/ \E s \in Sessions : safe_play(s)
    \/ \E s \in Sessions, st \in PreviewStatuses : callback(s, st)
    \/ terminate_preview

\* the supervisor, the watcher, the UI's workers, the application and libmpv
Next ==
    \/ MainStartOk
    \/ MainStartTimeout
    \/ MainLoopExit
    \/ \E t \in Threads : lock_blocked(t)
    \/ \E t \in Threads : restart_enter(t)
    \/ \E t \in Threads : restart_ok(t)
    \/ \E t \in Threads : restart_timeout(t)
    \/ \E t \in Threads : restart_shutdown(t)
    \/ \E t \in Threads : hard_restart_enter(t)
    \/ \E t \in Threads : hard_restart_new(t)
    \/ \E t \in Threads : hard_restart_ok(t)
    \/ \E t \in Threads : hard_restart_timeout(t)
    \/ \E t \in Threads : hard_restart_shutdown(t)
    \/ watcher_poll
    \/ watcher_recovered
    \/ dispatch_restart
    \/ dispatch_restart_ok
    \/ \E u \in Workers : action_play_pause(u)
    \/ \E u \in Workers : play_pause(u)
    \/ \E u \in Workers : action_soft_restart(u)
    \/ \E u \in Workers : action_hard_restart(u)
    \/ on_unmount
    \/ Stall
    \/ Resume
    \/ CoreShutdown

Spec == Init /\ [][Next]_vars

\* The preview sessions next to a supervisor that has started and whose stream
\* does not stall; the user has paused the stream or not.
InitPreview ==
    /\ pcMain = "running"
    /\ instance = TRUE
    /\ terminated = FALSE
    /\ player = 1
    /\ live = {1}
    /\ pause \in BOOLEAN
    /\ core_idle = FALSE
    /\ restart_lock = Free
    /\ pc = [t \in Threads |-> IF t = Watcher THEN "poll" ELSE "idle"]
    /\ state = [t \in Threads |-> FALSE]
    /\ base_timeout = DefaultBaseTimeout
    /\ retries = 0
    /\ timeout = 0
    /\ wTerminated = FALSE
    /\ posted = "none"
    /\ failPosted = 0
    /\ attempts = <<>>
    /\ appQuit = FALSE
    /\ started = TRUE
    /\ nSessions = 0
    /\ pv_thread = 0
    /\ pvpc = [s \in Sessions |-> "none"]
    /\ pvTerminated = [s \in Sessions |-> FALSE]
    /\ pvPlayer = [s \in Sessions |-> "none"]
    /\ main_player = [s \in Sessions |-> FALSE]
    /\ pausedBefore = [s \in Sessions |-> FALSE]
    /\ cbPending = {}
    /\ received = [s \in Sessions |-> {}]
    /\ pvResult = "none"
    /\ cancelledAt = [s \in Sessions |-> "no"]
    /\ op = [u \in Workers |-> "none"]
    /\ volume = DefaultVolume
    /\ muted_volume = 0
    /\ called = "none"
    /\ preMute = 0
    /\ lastRetryNo = 0
    /\ wSuccess = 0

NextPreview ==
    \/ \E t \in Threads : restart_enter(t)
    \/ \E t \in Threads : restart_ok(t)
    \/ \E t \in Threads : restart_timeout(t)
    \/ PreviewStep

SpecPreview == InitPreview /\ [][NextPreview]_vars

\* The preview sessions with the data events of the snippet's player
NextPreviewData ==
    \/ NextPreview /\ nSessions' <= DataSessions
    \/ \E s \in Sessions : pv_data_check(s)
    \/ \E s \in Sessions : pv_data_dispatch(s)
    \/ \E s \in Sessions : callback(s, "DATA")

SpecPreviewData == InitPreview /\ [][NextPreviewData]_vars

\* The volume operations on a started supervisor, whose volume is anything in
\* range; the backend may die.
InitVolume ==
    /\ pcMain = "running"
    /\ instance = TRUE
    /\ terminated = FALSE
    /\ player = 1
    /\ live = {1}
    /\ pause = FALSE
    /\ core_idle = FALSE
    /\ restart_lock = Free
    /\ pc = [t \in Threads |-> IF t = Watcher THEN "poll" ELSE "idle"]
    /\ state = [t \in Threads |-> FALSE]
    /\ base_timeout = DefaultBaseTimeout
    /\ retries = 0
    /\ timeout = 0
    /\ wTerminated = FALSE
    /\ posted = "none"
    /\ failPosted = 0
    /\ attempts = <<>>
    /\ appQuit = FALSE
    /\ started = TRUE
    /\ nSessions = 0
    /\ pv_thread = 0
    /\ pvpc = [s \in Sessions |-> "none"]
    /\ pvTerminated = [s \in Sessions |-> FALSE]
    /\ pvPlayer = [s \in Sessions |-> "none"]
    /\ main_player = [s \in Sessions |-> FALSE]
    /\ pausedBefore = [s \in Sessions |-> FALSE]
    /\ cbPending = {}
    /\ received = [s \in Sessions |-> {}]
    /\ pvResult = "none"
    /\ cancelledAt = [s \in Sessions |-> "no"]
    /\ op = [u \in Workers |-> "none"]
    /\ volume \in 0..MaxVolume
    /\ muted_volume = 0
    /\ called = "none"
    /\ preMute = 0
    /\ lastRetryNo = 0
    /\ wSuccess = 0

NextVolume ==
    \/ \E v \in 0..MaxVolume : set_volume(v)
    \/ \E a \in Amounts : raise_volume(a)
    \/ \E a \in Amounts : lower_volume(a)
    \/ mute
    \/ unmute
    \/ toggle_mute
    \/ CoreShutdown

SpecVolume == InitVolume /\ [][NextVolume]_vars

\* nothing but toggle_mute, from every volume of a stream that is not muted
NextToggle == toggle_mute

SpecToggle == InitVolume /\ [][NextToggle]_vars

----------------------------------------------------------------------------
\* Properties

\* the thread is inside the block that `with self._restart_lock:` protects, in
\* restart() (the handler of ShutdownError included) or in hard_restart()
InRestartBody(t) == pc[t] \in {"soft_wait", "soft_shutdown", "hard_new", "hard_wait"}

\* the thread called restart()/hard_restart() while the lock was held
BlockedOnLock(t) == pc[t] \in {"soft_blocked", "hard_blocked"}

\* C1: a restart request that finds a restart in flight is a no-op: it never
\* goes on to execute a restart body of its own (nothing is queued behind the
\* lock).
C1_OverlapIsNoOp ==
    [][\A t \in Threads : BlockedOnLock(t) => ~InRestartBody(t)']_vars

\* C2: at most one thread is inside a restart body, and is_restarting() is
\* true exactly while some thread is inside one.
C2_RestartMutex ==
    /\ Cardinality({t \in Threads : InRestartBody(t)}) <= 1
    /\ is_restarting <=> (\E t \in Threads : InRestartBody(t))

C2_Witness ==
    \E t, u \in Threads : pc[t] = "soft_wait" /\ BlockedOnLock(u)

\* C3: right after a SuccessfulRestart message has been posted, whichever path
\* posted it, retries is 0.
C3_ResetOnSuccess == posted = "SuccessfulRestart" => retries = 0

\* C4: when every attempt times out, attempts 1..5 are soft and 6..10 hard; so
\* after the 6th consecutive failure has been reported the watcher has not been
\* told to stop (unless the application quit), and goes on to the 10th.
C4_Escalation ==
    /\ \A k \in 1..Len(attempts) :
          attempts[k] = IF k <= soft_retry_cap THEN "soft" ELSE "hard"
    /\ (Len(attempts) = soft_retry_cap + 1 /\ posted = "FailedRestart")
          => (appQuit \/ ~wTerminated)

\* C6: the watcher's thread ends only when the application has shut the
\* supervisor down or Fail has been posted; in particular not after a hard
\* restart.
C6_WatcherKeepsPolling ==
    pc[Watcher] = "stopped" => (appQuit \/ failPosted > 0)

\* C7: every dispatch uses timeout = min(base + 5 * retries, cap) with retries
\* already incremented; the timeout never exceeds the cap and does not decrease
\* from one failed attempt to the next.
C7_TimeoutBounded ==
    [][retries' = retries + 1 =>
         /\ timeout' = (IF base_timeout + 5 * retries' <= timeout_cap
                        THEN base_timeout + 5 * retries' ELSE timeout_cap)
         /\ timeout' <= timeout_cap
         /\ (retries > 0 => timeout' >= timeout)]_vars

C7_Witness ==
    /\ pc[Watcher] = "soft_wait"
    /\ base_timeout + 5 * retries > timeout_cap
    /\ timeout = timeout_cap

\* C8: at most one preview session is alive; a preview() call made while one is
\* alive reports Locked, starts no session and changes neither the sessions
\* nor the main stream.
C8_PreviewMutex ==
    [][/\ Cardinality({s \in Sessions : is_alive(s)'}) <= 1
       /\ (pvResult' \in {"locked", "started"} /\ \E s \in Sessions : is_alive(s))
            => /\ pvResult' = "locked"
               /\ UNCHANGED <<pvState, pause, core_idle, player, live, pc,
                              restart_lock>>]_vars

C8_Witness == pvResult = "locked" /\ pvpc[pv_thread] = "playback"

\* C9: once the callback has received DONE for the latest session, a preview()
\* call is not answered with Locked.
C9_AcceptedAfterDone ==
    pvResult = "locked" => "DONE" \notin received[pv_thread]

\* C10: once a preview has ended (its thread and the thread it started to
\* resume the main stream are through), the main stream's paused flag is what
\* it was when preview() was called.
C10_PausedRestored ==
    (/\ nSessions = 1
     /\ pvpc[1] = "dead"
     /\ pc[Restorer(1)] \in {"idle", "finished"})
       => paused = pausedBefore[1]

\* the latest session has ended and every callback thread it started has run
SessionOver(s) ==
    /\ pvpc[s] = "dead"
    /\ \A st \in PreviewStatuses : <<s, st>> \notin cbPending

\* C11: every started preview session delivers DONE to its callback, whether
\* it finished, failed to open, raised an error or was cancelled: once the
\* session is over the callback has received DONE.
C11_DoneDelivered ==
    \A s \in Sessions : SessionOver(s) => "DONE" \in received[s]

\* C12: a session that terminate_preview() stopped before it was playing, in
\* particular before it had created its player, does not go on to play the
\* snippet.
C12_CancelStops ==
    \A s \in Sessions :
        cancelledAt[s] \in {"new", "play"} => pvpc[s] \notin {"pause_main", "playback", "else"}

\* every thread the preview sessions started has ended
PreviewQuiescent ==
    /\ \A s \in Sessions : ~is_alive(s)
    /\ \A t \in Restorers : pc[t] \in {"idle", "finished"}

\* C13: when the main stream was playing before the preview and the preview is
\* cancelled after it paused the main stream, the main stream is not left
\* paused: once every thread of the sessions has ended it is unpaused.
C13_ResumedAfterCancel ==
    (PreviewQuiescent /\ nSessions > 0 /\ cancelledAt[nSessions] = "playback"
       /\ ~pausedBefore[nSessions]) => ~paused

\* C14: terminate_preview() with no session alive posts nothing and changes
\* neither the sessions nor the main stream's paused flag and volume, however
\* often it is called.
C14_TerminateIdle ==
    [][(pvResult' \in {"stopped", "no_session"} /\ ~(pv_thread # 0 /\ is_alive(pv_thread)))
         => /\ posted' = "none"
            /\ UNCHANGED <<pvState, pause, volume, muted_volume, pc, supFrame>>]_vars

C14_Witness ==
    pvResult = "no_session" /\ pv_thread # 0 /\ pvpc[pv_thread] = "dead"

\* C15: with the backend alive, retries 0 and the stream idle and unpaused
\* before and after the grace period, the watcher's iteration dispatches one
\* restart and it is a soft restart.
C15_ScenarioA ==
    [][(/\ pc[Watcher] = "grace"
        /\ pc'[Watcher] # "grace"
        /\ retries = 0
        /\ is_player_alive
        /\ is_not_playing)
         => /\ pc'[Watcher] = "soft_lock"
            /\ attempts' = <<"soft">>
            /\ retries' = 1]_vars

C15_Witness ==
    pc[Watcher] = "soft_wait" /\ retries = 1 /\ attempts = <<"soft">>

\* C16: when the initial start times out, one Fail is posted, Started is never
\* posted, the watcher is never started and no restart is ever dispatched.
C16_StartFailure ==
    pcMain = "failed" =>
        /\ failPosted = 1
        /\ ~started
        /\ pc[Watcher] = "idle"
        /\ retries = 0
        /\ attempts = <<>>
        /\ \A t \in Threads : pc[t] = "idle"

C16_Witness == pcMain = "failed" /\ posted = "none" /\ appQuit

\* C17: a soft restart that completes keeps the backend handle and leaves the
\* paused flag at the value restart() read when it began.
C17_SoftRestartKeeps ==
    [][\A t \in Threads :
          pc[t] = "soft_wait" =>
             /\ player' = player
             /\ (pc'[t] # "soft_wait" /\ posted' = "SuccessfulRestart")
                  => paused' = state[t]]_vars

C17_Witness == posted = "SuccessfulRestart" /\ paused

\* C18: raise_volume and lower_volume with amounts >= 0, in any sequence from a
\* volume in 0..100, leave the volume in 0..100.
C18_VolumeInRange == volume >= 0 /\ volume <= MaxVolume

C18_Witness ==
    \/ called = "raise_volume" /\ volume = MaxVolume
    \/ called = "lower_volume" /\ volume = 0

\* C19: on a running backend the volume is 0 after mute(), and an unmute() that
\* follows the mute() immediately restores the volume read before the mute(),
\* or gives 1 when that was 0.
C19_MuteUnmute ==
    [][/\ (called' = "mute" /\ is_player_alive') => volume' = 0
       /\ (called = "mute" /\ called' = "unmute" /\ is_player_alive')
            => volume' = (IF preMute = 0 THEN 1 ELSE preMute)]_vars

C19_Witness == called = "unmute" /\ preMute = volume_step /\ volume = volume_step

\* C20: no operation the UI starts (play_pause, safe_restart,
\* safe_hard_restart) lets a timeout or a shutdown of the backend through to
\* its caller.
C20_NothingPropagates == \A u \in Workers : pc[u] # "raised"

\* C21: every restart call returns or raises and releases the lock, the soft
\* restart that falls back to a hard restart after a shutdown of the backend
\* included: no thread waits in hard_restart() for the lock it holds itself.
C21_RestartReturns ==
    \A t \in Threads : pc[t] = "soft_shutdown" => restart_lock # t

\* C22: the watcher calls restart()/hard_restart() only when no other restart
\* is in flight, also when that restart began during the grace period.
C22_NoPileUp ==
    [][(pc[Watcher] = "grace" /\ pc'[Watcher] \in {"soft_lock", "hard_lock"})
         => ~is_restarting]_vars

\* C23: a pause issued by a preview while a soft restart is in flight is not
\* lost: when the restart completes while the snippet is playing, the main
\* stream is still paused.
C23_PauseSurvivesRestart ==
    [][\A t \in Threads :
          (/\ pc[t] = "soft_wait"
           /\ pc'[t] # "soft_wait"
           /\ posted' = "SuccessfulRestart"
           /\ ~state[t]
           /\ paused
           /\ \E s \in Sessions : pvpc[s] = "playback" /\ main_player[s])
            => paused']_vars

C25_PausedBeforePlaying ==
    \A s \in Sessions :
        (/\ "PLAYING" \in received[s]
         /\ is_alive(s)
         /\ main_player[s]
         /\ is_player_alive) => paused

\* C26: the callbacks of a session begin in the order PLAYING, FINISHED, DONE:
\* when the callback has received DONE no PLAYING or FINISHED callback of the
\* session is still to begin.
C26_DoneIsLast ==
    \A s \in Sessions :
        "DONE" \in received[s] =>
            /\ <<s, "PLAYING">> \notin cbPending
            /\ <<s, "FINISHED">> \notin cbPending

\* C27: when the watcher finds after the grace period that the stream is no
\* longer stalled, retries is back at 0.
C27_ResetOnResume ==
    [][(/\ pc[Watcher] = "grace"
        /\ pc'[Watcher] = "poll"
        /\ is_player_alive
        /\ ~coreIdleProp)
         => retries' = 0]_vars

\* C28: every FailedRestart carries the current retries, and retry_no goes up
\* by one from one FailedRestart to the next, starting at 1 after a
\* SuccessfulRestart.
C28_RetryNoSequence ==
    [][(posted' = "FailedRestart" /\ pc[Watcher] # pc'[Watcher])
         => lastRetryNo' = lastRetryNo + 1]_vars

\* C29: a restart dispatched by the watcher that succeeds results in one
\* SuccessfulRestart, not more.
C29_OneSuccessEvent == wSuccess <= 1

\* C30: while the backend is not alive the polling watcher dispatches nothing
\* and leaves retries alone.
C30_DeadBackendIdle ==
    [][(~is_player_alive /\ pc[Watcher] \in {"poll", "grace"})
         => /\ retries' = retries
            /\ attempts' = attempts
            /\ pc'[Watcher] \in {"poll", "grace", "stopped"}]_vars

C30_Witness ==
    pc[Watcher] = "grace" /\ ~is_player_alive /\ core_idle /\ ~pause /\ ~wTerminated

\* C31: paused is tri-state: on an unreachable backend it reads as a value
\* that is neither true nor false.
C31_PausedTriState == core_shutdown => paused \notin BOOLEAN

\* C32: play() on a paused stream restarts first and unpauses afterwards: while
\* the restart that play() calls has not completed, the stream is still paused.
C32_RestartBeforeUnpause ==
    \A u \in Workers :
        (/\ op[u] = "play_pause"
         /\ pc[u] \in {"soft_lock", "soft_blocked", "soft_wait"}
         /\ is_player_alive) => paused

\* C33: toggle_mute alternates for every starting volume: the first call
\* stores the volume and sets it to 0, the call after it restores the stored
\* volume, or sets 1 when the stored volume was 0.
C33_ToggleAlternates ==
    [][/\ (called # "toggle_mute" /\ called' = "toggle_mute")
            => (volume' = 0 /\ muted_volume' = volume)
       /\ (called = "toggle_mute" /\ called' = "toggle_mute_again")
            => volume' = (IF preMute = 0 THEN 1 ELSE preMute)]_vars

\* C34: the supervisor never has two live main backends, and after a
\* successful hard restart its one live backend is the current player.
C34_OneBackend ==
    /\ Cardinality(live) <= 1
    /\ posted = "Started" => live = {player}

C34_Witness == posted = "Started" /\ player > 1 /\ live = {player}

\* C35: retries changes only in a step of the watcher's own dispatch.
C35_RetriesOwnedByWatcher ==
    [][retries' # retries
         => (pc[Watcher] \in {"grace", "w_ok"} /\ pc'[Watcher] # pc[Watcher])]_vars

C35_Witness ==
    /\ retries = 1
    /\ posted = "SuccessfulRestart"
    /\ \E u \in Workers : op[u] = "safe_restart" /\ pc[u] = "idle"
    /\ pc[Watcher] = "poll"

\* C36: a supervisor that has just (re)started successfully stays registered
\* as MPVThread.instance unless the application terminates it.
C36_StaysRegistered ==
    [][(posted = "Started" /\ instance /\ ~appQuit') => instance']_vars

\* C37: the watcher runs only after Started has been posted: Started precedes
\* every SuccessfulRestart, FailedRestart and Fail of the watcher.
C37_StartedFirst ==
    [][/\ pc'[Watcher] # "idle" => started'
       /\ (pc'[Watcher] # pc[Watcher]
              /\ posted' \in {"SuccessfulRestart", "FailedRestart", "Fail"})
            => started]_vars

C37_Witness == posted = "FailedRestart" /\ started /\ pc[Watcher] = "poll"

\* C38: once a session is marked terminated no callback thread is started for
\* it any more.
C38_SilentOnceTerminated ==
    [][\A s \in Sessions, st \in PreviewStatuses \cup {"DATA"} :
          (pvTerminated[s] /\ <<s, st>> \notin cbPending)
             => <<s, st>> \notin cbPending']_vars

====
